---------------------------- MODULE Spec2Model ----------------------------
(***************************************************************************)
(* A model of tinyraytracer-rs (src/main.rs): the ray-sphere closest       *)
(* approach test, the scene scan, the diffuse shading, the byte conversion *)
(* and the per-pixel loop of render.                                       *)
(*                                                                         *)
(* Numbers.  The program computes in f32.  The model computes in fixed     *)
(* point: the integer n stands for the real n / One.  A product is         *)
(* rescaled by One and a quotient is truncated toward zero, so that every  *)
(* operation of the code has one operation here, in the order the code     *)
(* performs them.  A vector is a triple <<x, y, z>> of such numbers.       *)
(* The inputs the pure-function specification draws are chosen so that the *)
(* quantities the geometric claims speak about are exact in this           *)
(* representation (integer coordinates, directions of length 1, 2 or 5).   *)
(***************************************************************************)
EXTENDS Integers, Sequences, FiniteSets

VARIABLES
    pc,         \* position of the program: "start", "loop", "write", "done", "error"; "calls" in SpecCalls
    spheres,    \* the sphere list handed to render (main.rs:200-204)
    lights,     \* the light list handed to render (main.rs:205)
    width,      \* render's width (main.rs:167)
    height,     \* render's height (main.rs:168)
    i,          \* column of the next pixel of the inner loop (main.rs:174)
    j,          \* row of the next pixel of the outer loop (main.rs:173)
    pixels,     \* render's output buffer (main.rs:172)
    file,       \* what write_ppm_image has written, or NoFile
    runs,       \* number of calls of render begun so far
    prev,       \* the buffer written by the previous call of render
    call,       \* pure-function specification: the function applied and its arguments
    ret         \* pure-function specification: the value it returned

vars == <<pc, spheres, lights, width, height, i, j, pixels, file, runs, prev, call, ret>>

----------------------------------------------------------------------------
(* Fixed-point arithmetic standing for f32 *)

\* The fixed-point unit: the integer One stands for 1.0.
One == 1000

Abs(a) == IF a < 0 THEN -a ELSE a

Max(a, b) == IF a >= b THEN a ELSE b

\* a / b truncated toward zero (b # 0).
Quot(a, b) ==
    LET q == Abs(a) \div Abs(b)
    IN  IF (a < 0) = (b < 0) THEN q ELSE -q

\* The f32 product a * b of two fixed-point numbers.
Mul(a, b) == Quot(a * b, One)

\* The f32 quotient a / b of two fixed-point numbers.
Div(a, b) == Quot(a * One, b)

\* The largest r in lo..hi with r * r <= n, given lo * lo <= n < (hi + 1) * (hi + 1).
RECURSIVE SqrtIn(_, _, _)
SqrtIn(n, lo, hi) ==
    IF lo >= hi THEN lo
    ELSE LET mid == (lo + hi + 1) \div 2
         IN  IF mid * mid <= n THEN SqrtIn(n, mid, hi) ELSE SqrtIn(n, lo, mid - 1)

\* floor(sqrt(n)) for 0 <= n < 2^31.
ISqrt(n) == SqrtIn(n, 0, 46340)

\* Magnitudes below NormLimit are squared as they are; larger ones are first
\* divided by a power of ten: like f32, the norm of a long vector keeps its
\* leading digits only.
NormLimit == 20000

RECURSIVE Rescale(_)
Rescale(m) == IF m < NormLimit THEN 1 ELSE 10 * Rescale(m \div 10)

Vec3(x, y, z) == <<x, y, z>>

Zeros == <<0, 0, 0>>

VAdd(a, b) == <<a[1] + b[1], a[2] + b[2], a[3] + b[3]>>

VSub(a, b) == <<a[1] - b[1], a[2] - b[2], a[3] - b[3]>>

\* Vector3 * f32
VScale(v, s) == <<Mul(v[1], s), Mul(v[2], s), Mul(v[3], s)>>

\* Vector3::repeat
Repeat(s) == <<s, s, s>>

\* Vector3::dot
Dot(a, b) == Mul(a[1], b[1]) + Mul(a[2], b[2]) + Mul(a[3], b[3])

\* Vector3::norm: the square root of the sum of the squared components.
Norm(v) ==
    LET m == Max(Abs(v[1]), Max(Abs(v[2]), Abs(v[3])))
        k == Rescale(m)
        x == Quot(v[1], k)
        y == Quot(v[2], k)
        z == Quot(v[3], k)
    IN  k * ISqrt(x * x + y * y + z * z)

\* The vector of NaNs that nalgebra's normalize returns for the zero vector
\* (0.0 / 0.0 in every component).
NaNVec == <<>>

IsNaNVec(v) == Len(v) = 0

\* Vector3::normalize: every component divided by the norm.
Normalize(v) ==
    LET n == Norm(v)
    IN  IF n = 0 THEN NaNVec ELSE <<Div(v[1], n), Div(v[2], n), Div(v[3], n)>>

----------------------------------------------------------------------------
(* Material, Sphere, Light, Intersection *)

Material(diffuse_color) == [diffuse_color |-> diffuse_color]

Sphere(center, radius, material) ==
    [center |-> center, radius |-> radius, material |-> material]

Light(position, intensity) == [position |-> position, intensity |-> intensity]

\* Option<Intersection>: None, or Some(Intersection::new(point, distance, material)).
None == [some |-> FALSE]

Intersection(point, distance, material) ==
    [some |-> TRUE, point |-> point, distance |-> distance, material |-> material]

\* ray_intersect with the comparison `distance < self.radius`: a line touching
\* the sphere misses it.
ray_intersect_Strict(sphere, origin, direction) ==
    LET dir_normalized == Normalize(direction)
    IN  IF IsNaNVec(dir_normalized)
        THEN None
        ELSE LET start_to_center == VSub(sphere.center, origin)
                 projection == Dot(start_to_center, dir_normalized)
                 closest_point == VAdd(origin, VScale(dir_normalized, projection))
                 distance == Norm(VSub(closest_point, sphere.center))
             IN  IF distance < sphere.radius
                 THEN Intersection(closest_point, distance, sphere.material)
                 ELSE None

\* Sphere::ray_intersect: the closest approach of the line through origin
\* along direction to the sphere's center, a hit when it is within the radius.
ray_intersect(sphere, origin, direction) ==
    LET dir_normalized == Normalize(direction)
    IN  IF IsNaNVec(dir_normalized)
        THEN None    \* every comparison with NaN is false
        ELSE LET start_to_center == VSub(sphere.center, origin)
                 projection == Dot(start_to_center, dir_normalized)
                 closest_point == VAdd(origin, VScale(dir_normalized, projection))
                 distance == Norm(VSub(closest_point, sphere.center))
             IN  IF distance <= sphere.radius
                 THEN Intersection(closest_point, distance, sphere.material)
                 ELSE None

\* The closure folded over the sphere list (main.rs:110-117): both arms of the
\* inner match return Some(intersection).
FoldStep(nearest, sphere, origin, direction) ==
    LET intersection == ray_intersect(sphere, origin, direction)
    IN  IF intersection.some
        THEN IF nearest.some /\ intersection.distance < nearest.distance
             THEN intersection
             ELSE intersection
        ELSE nearest

\* spheres.iter().fold(None, ...) over the first n spheres.
RECURSIVE FoldSpheres(_, _, _, _)
FoldSpheres(list, n, origin, direction) ==
    IF n = 0 THEN None
    ELSE FoldStep(FoldSpheres(list, n - 1, origin, direction), list[n], origin, direction)

\* The maximum view distance, 1000.0.
MaxViewDistance == 1000 * One

\* The cutoff with the guard `intersection.distance <= 1000.0`.
Cutoff_Inclusive(nearest) ==
    IF nearest.some /\ nearest.distance <= MaxViewDistance THEN nearest ELSE None

\* The cutoff match of scene_intersect (main.rs:120-123).
Cutoff(nearest) ==
    IF nearest.some /\ nearest.distance < MaxViewDistance THEN nearest ELSE None

scene_intersect(origin, direction, list) ==
    Cutoff(FoldSpheres(list, Len(list), origin, direction))

----------------------------------------------------------------------------
(* Shading *)

\* diffuse_for_intersection multiplying by the distance itself, without the
\* norm and the max.
diffuse_for_intersection_Signed(light, intersection) ==
    LET direction == Normalize(VSub(light.position, intersection.point))
    IN  IF IsNaNVec(direction)
        THEN Mul(light.intensity, 0)
        ELSE Mul(light.intensity, intersection.distance)

\* Light::diffuse_for_intersection.  f32::max(0.0, NaN) is 0.0, which is what
\* a light standing exactly on the hit point contributes.
diffuse_for_intersection(light, intersection) ==
    LET direction == Normalize(VSub(light.position, intersection.point))
    IN  IF IsNaNVec(direction)
        THEN Mul(light.intensity, 0)
        ELSE Mul(light.intensity, Max(0, Norm(VScale(direction, intersection.distance))))

\* lights.iter().fold(0.0, |acc, light| acc + ...) over the first n lights.
RECURSIVE FoldLights(_, _, _)
FoldLights(list, n, intersection) ==
    IF n = 0 THEN 0
    ELSE FoldLights(list, n - 1, intersection)
             + diffuse_for_intersection(list[n], intersection)

\* Option<Vector3<f32>>
SomeColor(v) == [some |-> TRUE, color |-> v]

\* cast_ray clamping the shaded colour to [0, 1] before returning it.
cast_ray_Clamped(origin, direction, slist, llist) ==
    LET intersection == scene_intersect(origin, direction, slist)
    IN  IF ~intersection.some
        THEN None
        ELSE LET diffuse_intensity == FoldLights(llist, Len(llist), intersection)
                 shaded == VAdd(intersection.material.diffuse_color,
                                Repeat(diffuse_intensity))
             IN  SomeColor(<<IF shaded[1] > One THEN One ELSE Max(0, shaded[1]),
                             IF shaded[2] > One THEN One ELSE Max(0, shaded[2]),
                             IF shaded[3] > One THEN One ELSE Max(0, shaded[3])>>)

cast_ray(origin, direction, slist, llist) ==
    LET intersection == scene_intersect(origin, direction, slist)
    IN  IF ~intersection.some
        THEN None
        ELSE LET diffuse_intensity == FoldLights(llist, Len(llist), intersection)
             IN  SomeColor(VAdd(intersection.material.diffuse_color,
                                Repeat(diffuse_intensity)))

----------------------------------------------------------------------------
(* Byte conversion *)

\* f32::clamp
Clamp(x, lo, hi) == IF x < lo THEN lo ELSE IF x > hi THEN hi ELSE x

\* `as u8`: truncation toward zero, saturating at 0 and 255.
AsU8(x) ==
    LET t == Quot(x, One)
    IN  IF t < 0 THEN 0 ELSE IF t > 255 THEN 255 ELSE t

\* A channel rounded to the nearest byte instead of truncated.
Channel_Rounded(c) == AsU8(Mul(255 * One, Clamp(c, 0, One)) + One \div 2)

\* One channel of vec_to_rgb: (255.0 * c.clamp(0.0, 1.0)) as u8.
Channel(c) == AsU8(Mul(255 * One, Clamp(c, 0, One)))

vec_to_rgb(v) == <<Channel(v[1]), Channel(v[2]), Channel(v[3])>>

----------------------------------------------------------------------------
(* render *)

\* (fov / 2.0).tan() for fov = PI / 3.0, that is 0.577.
TanHalfFov == 577

\* The direction of the ray through pixel (pi, pj) (main.rs:175-179).
PixelDir(pi, pj, w, h) ==
    LET x == Mul(Mul(Div(Mul(2 * One, pi * One + One \div 2), w * One) - One,
                     TanHalfFov),
                 Div(w * One, h * One))
        y == -Mul(Div(Mul(2 * One, pj * One + One \div 2), h * One) - One,
                  TanHalfFov)
    IN  Normalize(Vec3(x, y, -One))

\* The background with the row and the column exchanged.
Background_Swapped(pi, pj, w, h) ==
    Vec3(Div(pi * One, w * One),
         Div(pj * One, h * One),
         Div((pi + pj) * One, (h + w) * One))

\* The colour of a pixel whose ray hits nothing (main.rs:182-186).
Background(pi, pj, w, h) ==
    Vec3(Div(pj * One, h * One),
         Div(pi * One, w * One),
         Div((pi + pj) * One, (h + w) * One))

\* The (r, g, b) of pixel (pi, pj) (main.rs:179-187).  dir and v are bound
\* as set elements so that each is computed once, as a `let` of the code is.
PixelBytes(pi, pj, w, h, slist, llist) ==
    CHOOSE rgb \in
        { IF v.some THEN vec_to_rgb(v.color) ELSE vec_to_rgb(Background(pi, pj, w, h)) :
            v \in { cast_ray(Zeros, dir, slist, llist) :
                      dir \in { PixelDir(pi, pj, w, h) } } } : TRUE

NoFile == [written |-> FALSE]

\* What write_ppm_image leaves in the file: the header and the pixel data.
PpmFile(w, h, data) == [written |-> TRUE, header |-> <<"P6", w, h, 255>>, data |-> data]

NoCall == [fn |-> "none"]

\* Bounds of the model: image sizes, number of calls of render.
MaxWidth == 3

MaxHeight == 3

MaxRuns == 2

\* Colours and materials of main (main.rs:198-199) and one more.
chartreuse == Material(Vec3(500, 800, 300))

red == Material(Vec3(1000, 500, 500))

blue == Material(Vec3(100, 200, 900))

\* The scene of main (main.rs:200-205).
MainSpheres ==
    << Sphere(Vec3(2 * One, 1 * One, -16 * One), 5 * One, red),
       Sphere(Vec3(2 * One, 3 * One, -11 * One), 1 * One, chartreuse),
       Sphere(Vec3(-3 * One, 0, -16 * One), 2 * One, chartreuse) >>

MainLights == << Light(Vec3(-20 * One, 20 * One, 20 * One), 200) >>

\* The scenes render is given: that of main, the empty one, one small sphere
\* off the axis, and a sphere whose closest approach is beyond the view distance.
SceneSpheres ==
    { MainSpheres,
      << >>,
      << Sphere(Vec3(-3 * One, 3 * One, -6 * One), 2 * One, blue) >>,
      << Sphere(Vec3(0, 1200 * One, -10 * One), 1500 * One, red),
         Sphere(Vec3(4 * One, 0, -8 * One), 1 * One, chartreuse) >> }

SceneLights ==
    { MainLights,
      << >>,
      << Light(Vec3(0, 10 * One, 0), 100), Light(Vec3(5 * One, 0, 5 * One), 100) >> }

Init ==
    /\ pc = "start"
    /\ spheres \in SceneSpheres
    /\ lights \in SceneLights
    /\ width \in 1..MaxWidth
    /\ height \in 1..MaxHeight
    /\ i = 0
    /\ j = 0
    /\ pixels = << >>
    /\ file = NoFile
    /\ runs = 0
    /\ prev = << >>
    /\ call = NoCall
    /\ ret = None

\* render entered without a fresh buffer: the bytes of the previous call stay.
render_begin_KeepBuffer ==
    /\ pc \in {"start", "done"}
    /\ runs < MaxRuns
    /\ runs' = runs + 1
    /\ prev' = pixels
    /\ pixels' = pixels
    /\ i' = 0
    /\ j' = 0
    /\ pc' = "loop"
    /\ UNCHANGED <<spheres, lights, width, height, file, call, ret>>

\* render is entered: let mut pixels = Vec::new() and the loops start
\* (main.rs:166-174).  It is entered from main, and again on the same scene.
render_begin ==
    /\ pc \in {"start", "done"}
    /\ runs < MaxRuns
    /\ runs' = runs + 1
    /\ prev' = pixels
    /\ pixels' = << >>
    /\ i' = 0
    /\ j' = 0
    /\ pc' = "loop"
    /\ UNCHANGED <<spheres, lights, width, height, file, call, ret>>

\* The loops exchanged: the column outside, the row inside.
RenderPixel_ColumnMajor ==
    /\ pc = "loop"
    /\ j < height
    /\ i < width
    /\ \E rgb \in { PixelBytes(i, j, width, height, spheres, lights) } :
           pixels' = Append(Append(Append(pixels, rgb[1]), rgb[2]), rgb[3])
    /\ IF j + 1 < height
       THEN j' = j + 1 /\ i' = i /\ pc' = "loop"
       ELSE /\ j' = 0
            /\ i' = i + 1
            /\ pc' = IF i + 1 < width THEN "loop" ELSE "write"
    /\ UNCHANGED <<spheres, lights, width, height, file, runs, prev, call, ret>>

\* One iteration of the inner loop (main.rs:175-190), and the loop headers
\* that follow it (main.rs:173-174).
RenderPixel ==
    /\ pc = "loop"
    /\ j < height
    /\ i < width
    /\ \E rgb \in { PixelBytes(i, j, width, height, spheres, lights) } :
           pixels' = Append(Append(Append(pixels, rgb[1]), rgb[2]), rgb[3])
    /\ IF i + 1 < width
       THEN i' = i + 1 /\ j' = j /\ pc' = "loop"
       ELSE /\ i' = 0
            /\ j' = j + 1
            /\ pc' = IF j + 1 < height THEN "loop" ELSE "write"
    /\ UNCHANGED <<spheres, lights, width, height, file, runs, prev, call, ret>>

\* write_ppm_image succeeds (main.rs:144-154, called at main.rs:194).
write_ppm_image ==
    /\ pc = "write"
    /\ file' = PpmFile(width, height, pixels)
    /\ pc' = "done"
    /\ UNCHANGED <<spheres, lights, width, height, i, j, pixels, runs, prev, call, ret>>

\* write_ppm_image fails in File::create: render returns the error and main ends.
write_ppm_image_err ==
    /\ pc = "write"
    /\ pc' = "error"
    /\ UNCHANGED <<spheres, lights, width, height, i, j, pixels, file, runs, prev, call, ret>>

Next ==
    \/ render_begin
    \/ RenderPixel
    \/ write_ppm_image
    \/ write_ppm_image_err

Spec == Init /\ [][Next]_vars

----------------------------------------------------------------------------
(* The pure functions, each applied once to arguments drawn from bounded   *)
(* sets.  Coordinates are whole numbers of units; U turns them into        *)
(* fixed-point numbers.                                                    *)

U(v) == <<v[1] * One, v[2] * One, v[3] * One>>

\* Bounds of the model: the grid of sphere centers, the radii, the list lengths.
Grid == 2

MaxRadius == 3

MaxSpheres == 3

MaxLights == 2

white == Material(Vec3(900, 900, 900))

\* Directions whose length is 1, 2 or 5, so that normalizing them is exact.
Directions ==
    { <<0, 0, -1>>, <<0, 0, 1>>, <<0, 0, -2>>, <<1, 0, 0>>,
      <<3, 4, 0>>, <<0, -3, 4>>, <<-4, 0, 3>>, <<0, -5, 0>> }

Origins == { <<0, 0, 0>>, <<1, -1, 2>> }

Centers == { <<x, y, z>> : x \in -Grid..Grid, y \in -Grid..Grid, z \in -Grid..Grid }

\* Spheres for the scene scan.  From the origin along <<0, 0, -1>> their closest
\* approaches are 5, 10, 1000 (the view distance exactly), 1200, a miss, and 5
\* again, behind the origin and touching the line.
SphereA == Sphere(U(<<0, 5, -10>>), 6 * One, red)

SphereB == Sphere(U(<<10, 0, -20>>), 12 * One, chartreuse)

SphereC == Sphere(U(<<0, 1000, -10>>), 1500 * One, blue)

SphereD == Sphere(U(<<0, -1200, -30>>), 1300 * One, white)

SphereE == Sphere(U(<<0, 9, -5>>), 2 * One, white)

SphereF == Sphere(U(<<5, 0, 3>>), 5 * One, white)

SeqsUpTo(S, n) == UNION { [1..k -> S] : k \in 0..n }

SceneRays ==
    { <<o, d>> : o \in { <<0, 0, 0>>, <<0, 1, 0>> },
                 d \in { <<0, 0, -1>>, <<3, 4, 0>>, <<0, 2, 0>> } }

ShadeLights ==
    { Light(U(<<-20, 20, 20>>), 200),
      Light(U(<<0, 0, 5>>), 20),
      Light(U(<<0, 0, 20>>), 20) }

\* Channel values: -0.2, 0, 0.001, 0.3, 0.5, 0.999, 1.0, 1.4.
ChannelInputs == { -200, 0, 1, 300, 500, 999, 1000, 1400 }

\* Lights and intersections for the diffuse term: the light stands at
\* point + offset, the offsets being zero or of length 5, 10 or 15.
DiffusePoints == { <<0, 0, 0>>, <<2, 4, -10>> }

DiffuseOffsets == { <<0, 0, 0>>, <<0, 0, 15>>, <<3, 4, 0>>, <<-8, 0, 6>>, <<0, -5, 0>> }

Intensities == { -200, 0, 20, 200, 1000 }

Distances == { -1500, 0, 500, 5000, 1200000 }

CallsInit ==
    /\ pc = "calls"
    /\ spheres = << >>
    /\ lights = << >>
    /\ width = 1
    /\ height = 1
    /\ i = 0
    /\ j = 0
    /\ pixels = << >>
    /\ file = NoFile
    /\ runs = 0
    /\ prev = << >>
    /\ call = NoCall
    /\ ret = None

Idle == UNCHANGED <<pc, spheres, lights, width, height, i, j, pixels, file, runs, prev>>

call_ray_intersect ==
    /\ call = NoCall
    /\ \E c \in Centers, r \in 0..MaxRadius, o \in Origins, d \in Directions :
         /\ call' = [fn |-> "ray_intersect", sphere |-> Sphere(U(c), r * One, red),
                     origin |-> U(o), direction |-> U(d)]
         /\ ret' = ray_intersect(Sphere(U(c), r * One, red), U(o), U(d))
    /\ Idle

call_scene_intersect ==
    /\ call = NoCall
    /\ \E list \in SeqsUpTo({SphereA, SphereB, SphereC, SphereD, SphereE, SphereF},
                            MaxSpheres),
          ray \in SceneRays :
         /\ call' = [fn |-> "scene_intersect", origin |-> U(ray[1]),
                     direction |-> U(ray[2]), spheres |-> list]
         /\ ret' = scene_intersect(U(ray[1]), U(ray[2]), list)
    /\ Idle

call_cast_ray ==
    /\ call = NoCall
    /\ \E slist \in SeqsUpTo({SphereA, SphereB, SphereE}, MaxSpheres),
          llist \in SeqsUpTo(ShadeLights, MaxLights),
          d \in { <<0, 0, -1>>, <<3, 4, 0>> } :
         /\ call' = [fn |-> "cast_ray", origin |-> Zeros, direction |-> U(d),
                     spheres |-> slist, lights |-> llist]
         /\ ret' = cast_ray(Zeros, U(d), slist, llist)
    /\ Idle

call_diffuse_for_intersection ==
    /\ call = NoCall
    /\ \E pt \in DiffusePoints, off \in DiffuseOffsets,
          intensity \in Intensities, distance \in Distances :
         \E light \in { Light(VAdd(U(pt), U(off)), intensity) },
            intersection \in { Intersection(U(pt), distance, red) } :
              /\ call' = [fn |-> "diffuse_for_intersection", light |-> light,
                          intersection |-> intersection]
              /\ ret' = diffuse_for_intersection(light, intersection)
    /\ Idle

call_vec_to_rgb ==
    /\ call = NoCall
    /\ \E x \in ChannelInputs, y \in ChannelInputs, z \in ChannelInputs :
         /\ call' = [fn |-> "vec_to_rgb", v |-> Vec3(x, y, z)]
         /\ ret' = vec_to_rgb(Vec3(x, y, z))
    /\ Idle

CallsNext ==
    \/ call_ray_intersect
    \/ call_scene_intersect
    \/ call_cast_ray
    \/ call_diffuse_for_intersection
    \/ call_vec_to_rgb

SpecCalls == CallsInit /\ [][CallsNext]_vars

----------------------------------------------------------------------------
(* Claims about scene_intersect (SpecCalls) *)

IsSceneCall == call.fn = "scene_intersect"

\* The hit of the k-th sphere of the called list on the called ray.
HitOf(k) == ray_intersect(call.spheres[k], call.origin, call.direction)

\* C1: the result of scene_intersect is the hit with the smallest distance: no
\* sphere of the list has a hit strictly nearer than the one returned, and the
\* material returned is that of a sphere whose hit has the smallest distance.
C1_NearestHit ==
    (IsSceneCall /\ ret.some) =>
        /\ \A k \in 1..Len(call.spheres) :
             HitOf(k).some => ~(HitOf(k).distance < ret.distance)
        /\ \E k \in 1..Len(call.spheres) :
             /\ HitOf(k).some
             /\ HitOf(k).material = ret.material
             /\ \A m \in 1..Len(call.spheres) :
                  HitOf(m).some => HitOf(k).distance <= HitOf(m).distance

\* C2: a result of scene_intersect is a hit of some sphere of the list and is
\* strictly nearer than 1000.0; when the candidate left by the scan is at
\* 1000.0 or beyond, and when no sphere is hit at less than 1000.0 (an empty
\* list, a list without a hit), the result is None.
C2_Cutoff ==
    IsSceneCall =>
        /\ ret.some =>
             /\ ret.distance < 1000 * One
             /\ \E k \in 1..Len(call.spheres) : HitOf(k) = ret
        /\ \E cand \in { FoldSpheres(call.spheres, Len(call.spheres),
                                     call.origin, call.direction) } :
             (cand.some /\ cand.distance >= 1000 * One) => ret = None
        /\ (\A k \in 1..Len(call.spheres) :
               HitOf(k).some => HitOf(k).distance >= 1000 * One) => ret = None
        /\ call.spheres = << >> => ret = None

\* C2 witness: the scan of a non-empty list leaves a hit at 1000.0 or beyond
\* and the query returns None.
C2_Witness ==
    /\ IsSceneCall
    /\ Len(call.spheres) >= 2
    /\ ret = None
    /\ \E k \in 1..Len(call.spheres) : HitOf(k).some /\ HitOf(k).distance = 1000 * One
    /\ HitOf(Len(call.spheres)).some

\* The lists that hold the spheres of list in another order.
Permutations(list) ==
    { [k \in 1..Len(list) |-> list[p[k]]] :
        p \in { q \in [1..Len(list) -> 1..Len(list)] :
                  \A a, b \in 1..Len(list) : q[a] = q[b] => a = b } }

\* C10: when the hits of the spheres of the list are at pairwise distinct
\* distances, every ordering of the list gives the same result.
C10_OrderIndependent ==
    (IsSceneCall /\ \A a, b \in 1..Len(call.spheres) :
                       (a # b /\ HitOf(a).some /\ HitOf(b).some)
                           => HitOf(a).distance # HitOf(b).distance) =>
        \A perm \in Permutations(call.spheres) :
            scene_intersect(call.origin, call.direction, perm) = ret

----------------------------------------------------------------------------
(* Claims about Sphere::ray_intersect (SpecCalls) *)

IsRayCall == call.fn = "ray_intersect"

\* A fixed-point vector of whole units, in units.
InUnits(v) == <<Quot(v[1], One), Quot(v[2], One), Quot(v[3], One)>>

IDot(a, b) == a[1] * b[1] + a[2] * b[2] + a[3] * b[3]

\* With c the center, o the origin and d the direction, in units:
\* |d|^2, (c - o) . d, and |c - o|^2 |d|^2 - ((c - o) . d)^2, which is |d|^2
\* times the squared distance from the center to the line through o along d.
DirSq == IDot(InUnits(call.direction), InUnits(call.direction))

Along == IDot(InUnits(VSub(call.sphere.center, call.origin)), InUnits(call.direction))

PerpSqTimesDirSq ==
    IDot(InUnits(VSub(call.sphere.center, call.origin)),
         InUnits(VSub(call.sphere.center, call.origin))) * DirSq - Along * Along

RadiusUnits == Quot(call.sphere.radius, One)

\* C3: ray_intersect returns Some exactly when the distance from the center to
\* the line is at most the radius, whatever the sign of the projection; on a
\* hit, distance is that distance (to the resolution of the arithmetic), point
\* is origin + dir_normalized * projection and material is the sphere's.
C3_ClosestApproach ==
    IsRayCall =>
        /\ ret.some <=> (PerpSqTimesDirSq <= RadiusUnits * RadiusUnits * DirSq)
        /\ ret.some =>
             /\ ret.distance >= 0
             /\ ret.distance * ret.distance * DirSq <= One * One * PerpSqTimesDirSq
             /\ One * One * PerpSqTimesDirSq
                    < (ret.distance + 1) * (ret.distance + 1) * DirSq
             /\ \A k \in 1..3 :
                  ret.point[k] * DirSq
                      = One * (InUnits(call.origin)[k] * DirSq
                                 + InUnits(call.direction)[k] * Along)
             /\ ret.material = call.sphere.material

\* C3 witness: a hit on a sphere whose closest approach lies behind the origin,
\* the line touching the sphere (distance equal to the radius, not zero), along
\* a direction that is neither a unit vector nor parallel to an axis.
C3_Witness ==
    /\ IsRayCall
    /\ ret.some
    /\ Along < 0
    /\ DirSq = 25
    /\ call.direction[1] # 0
    /\ ret.distance = call.sphere.radius
    /\ ret.distance > 0

\* C3 witness of the other side: the line passes the sphere by more than its
\* radius and the result is None.
C3_MissReached == IsRayCall /\ ~ret.some /\ RadiusUnits > 0

----------------------------------------------------------------------------
(* Claims about vec_to_rgb, cast_ray and diffuse_for_intersection (SpecCalls) *)

IsRgbCall == call.fn = "vec_to_rgb"

\* C5: every byte of vec_to_rgb is in 0..255 and is 255 * clamp(c, 0, 1)
\* truncated; a component of 1 or more gives 255, one of 0 or less gives 0, and
\* a larger component never gives a smaller byte.
C5_ClampScaleTruncate ==
    IsRgbCall =>
        \A k \in 1..3 :
            /\ ret[k] \in 0..255
            /\ call.v[k] >= One => ret[k] = 255
            /\ call.v[k] <= 0 => ret[k] = 0
            /\ (call.v[k] > 0 /\ call.v[k] < One) =>
                   /\ ret[k] * One <= 255 * call.v[k]
                   /\ 255 * call.v[k] < (ret[k] + 1) * One
            /\ \A m \in 1..3 : call.v[k] <= call.v[m] => ret[k] <= ret[m]

\* C5 witness: the components 1.4, -0.2 and 0.3 become the bytes 255, 0 and 76.
C5_Witness == IsRgbCall /\ call.v = <<1400, -200, 300>> /\ ret = <<255, 0, 76>>

IsCastCall == call.fn = "cast_ray"

\* The hit cast_ray shades.
CastHit == scene_intersect(call.origin, call.direction, call.spheres)

\* The contributions of the lights of a list to a hit, added up.
RECURSIVE TotalDiffuse(_, _)
TotalDiffuse(list, hit) ==
    IF list = << >> THEN 0
    ELSE diffuse_for_intersection(Head(list), hit) + TotalDiffuse(Tail(list), hit)

\* C6: cast_ray returns None exactly when scene_intersect does; on a hit it
\* returns the material's colour with the sum of the lights' contributions
\* added to each of the three channels, unclamped, which is the material's
\* colour itself when there is no light.
C6_DiffuseAccumulation ==
    IsCastCall =>
        /\ ret.some <=> CastHit.some
        /\ CastHit.some =>
             \E d \in { TotalDiffuse(call.lights, CastHit) } :
                /\ \A k \in 1..3 :
                     ret.color[k] = CastHit.material.diffuse_color[k] + d
                /\ call.lights = << >> => ret.color = CastHit.material.diffuse_color

\* C6 witness: two lights contribute 0.1 each and the colour returned is the
\* material's plus 0.2 in every channel, the red channel leaving [0, 1].
C6_Witness ==
    /\ IsCastCall
    /\ CastHit.some
    /\ Len(call.lights) = 2
    /\ diffuse_for_intersection(call.lights[1], CastHit) = 100
    /\ diffuse_for_intersection(call.lights[2], CastHit) = 100
    /\ ret.color = VAdd(CastHit.material.diffuse_color, <<200, 200, 200>>)
    /\ ret.color[1] = 1200

\* C6 witness of the other side: no hit, and cast_ray returns None.
C6_NoneReached == IsCastCall /\ ~ret.some /\ Len(call.spheres) > 0 /\ Len(call.lights) > 0

IsDiffuseCall == call.fn = "diffuse_for_intersection"

\* C9 as stated: whatever the light and the intersection, the contribution is
\* not negative.
C9_NonNegative == IsDiffuseCall => ret >= 0

\* C9 amended: the contribution is intensity * |distance| (zero for a light
\* standing on the hit point), which is not negative when the intensity is not
\* negative.
C9_NonNegativeIntensity ==
    IsDiffuseCall =>
        /\ ret = IF call.light.position = call.intersection.point
                 THEN 0
                 ELSE Quot(call.light.intensity * Abs(call.intersection.distance), One)
        /\ call.light.intensity >= 0 => ret >= 0

\* C9 witness: a light of positive intensity, off the axes from the hit point,
\* and an intersection of negative distance: the contribution is positive.
C9_Witness ==
    /\ IsDiffuseCall
    /\ call.light.intensity > 0
    /\ call.intersection.distance < 0
    /\ call.light.position[1] # call.intersection.point[1]
    /\ ret > 0

----------------------------------------------------------------------------
(* Claims about render (Spec) *)

\* The number of pixels in the buffer, and the bytes of the k-th of them
\* (k from 0), which is pixel (k % width, k \div width) in row-major order.
PixelCount == Len(pixels) \div 3

BytesAt(k) == <<pixels[3 * k + 1], pixels[3 * k + 2], pixels[3 * k + 3]>>

C4_Layout ==
    /\ pc = "start" => pixels = << >>
    /\ pc = "loop" => (i < width /\ j < height /\ Len(pixels) = 3 * (j * width + i))
    /\ pc \in {"write", "done", "error"} => Len(pixels) = 3 * width * height
    /\ file.written =>
         (file.header = <<"P6", width, height, 255>>
            /\ Len(file.data) = 3 * width * height)
    /\ \A k \in 0..(PixelCount - 1) :
         BytesAt(k) = PixelBytes(k % width, k \div width, width, height, spheres, lights)

C4_Append ==
    (runs' = runs) =>
        /\ SubSeq(pixels', 1, Len(pixels)) = pixels
        /\ pc # "loop" => pixels' = pixels
        /\ pc = "loop" =>
             /\ Len(pixels') = 3 * (j * width + i + 1)
             /\ pc' \in {"loop", "write"}
             /\ pc' = "write" <=> Len(pixels') = 3 * width * height

\* C4: render processes the pixels in row-major order, each once: processing
\* pixel (i, j) appends its three bytes at indices 3*(j*width+i).. of the
\* buffer, bringing its length to 3*(j*width+i+1), and leaves the bytes before
\* them as they are; write_ppm_image is handed a buffer of 3*width*height
\* bytes.  The loop ends: while it runs the next iteration can be taken
\* (i < width and j < height), every iteration lengthens the buffer by three
\* bytes, and the loop is left exactly when the length is 3*width*height.
C4_RowMajorOnce ==
    /\ []C4_Layout
    /\ [][C4_Append]_vars

\* C4 witness: a 3 x 2 image has been rendered and written, and its rows differ.
C4_Witness ==
    /\ pc = "done"
    /\ width = 3
    /\ height = 2
    /\ file.written
    /\ Len(file.data) = 18
    /\ SubSeq(pixels, 1, 9) # SubSeq(pixels, 10, 18)

C8_BackgroundOrShade ==
    /\ \A k \in 0..(PixelCount - 1) :
         \E pi \in { k % width }, pj \in { k \div width } :
           \E hit \in { cast_ray(Zeros, PixelDir(pi, pj, width, height), spheres, lights) } :
             /\ hit.some => BytesAt(k) = vec_to_rgb(hit.color)
             /\ ~hit.some =>
                  /\ BytesAt(k) = vec_to_rgb(<<Div(pj * One, height * One),
                                               Div(pi * One, width * One),
                                               Div((pi + pj) * One,
                                                   (height + width) * One)>>)
                  /\ (pi = 0 /\ pj = 0) => BytesAt(k) = <<0, 0, 0>>
             /\ \A other \in SceneLights :
                  cast_ray(Zeros, PixelDir(pi, pj, width, height), spheres, other).some
                      = hit.some
    /\ vec_to_rgb(<<Div(0 * One, 256 * One), Div(0 * One, 256 * One),
                    Div((0 + 0) * One, (256 + 256) * One)>>) = <<0, 0, 0>>

\* C8 witness: in one image, a pixel off the first row and column whose ray
\* hits nothing, written with its background bytes, and a pixel whose ray hits.
C8_Witness ==
    /\ pc = "write"
    /\ Len(lights) > 0
    /\ \E k \in 0..(PixelCount - 1) :
         /\ k % width > 0
         /\ k \div width > 0
         /\ k % width # k \div width
         /\ ~cast_ray(Zeros, PixelDir(k % width, k \div width, width, height),
                      spheres, lights).some
         /\ BytesAt(k)[1] # BytesAt(k)[2]
         /\ BytesAt(k)[3] > 0
    /\ \E k \in 0..(PixelCount - 1) :
         cast_ray(Zeros, PixelDir(k % width, k \div width, width, height),
                  spheres, lights).some

============================================================================
